---- MODULE Spec2Model ----
(***************************************************************************)
(* Model of the Fourier-domain helpers of simulation/microscope.py and of  *)
(* pytom/tools/macros.py.                                                  *)
(*                                                                         *)
(* Every function of the source is a pure function of its arguments; the   *)
(* state of the model is the call in progress: the function called (op),   *)
(* its arguments (args), its outcome (ret) and, for                         *)
(* create_detector_response, the position inside the body (pc), the steps  *)
(* executed so far (trace) and the local variables (loc).                  *)
(*                                                                         *)
(* Real numbers are kept exact:                                            *)
(*   - a frequency axis sample d is kept as the integer d * size / nyquist;*)
(*   - a frequency magnitude k = sqrt(sum d^2) is kept as the integer      *)
(*     k^2 * (size / nyquist)^2, so that two magnitudes are equal exactly  *)
(*     when the integers are;                                              *)
(*   - cos and sin of the astigmatism angle are kept as the legs c, s of a *)
(*     right triangle with integer sides, over its hypotenuse h.           *)
(***************************************************************************)
EXTENDS Integers, Sequences, FiniteSets, TLC

VARIABLES op, args, ret, pc, trace, loc

vars == <<op, args, ret, pc, trace, loc>>

(* ---------------------------------------------------------------------- *)
(* Bounds of the model                                                     *)
(* ---------------------------------------------------------------------- *)
MaxSize == 4        \* largest grid side
MaxDims == 4        \* longest shape tuple tried (one more than accepted)
MaxBinning == 3     \* largest binning factor
MaxF == 5           \* frange: start and stop range over -MaxF..MaxF
MaxStep == 3        \* frange: |step| <= MaxStep
MaxP == 1           \* sinc_square: parameters range over -MaxP..MaxP

Nothing == [status |-> "none"]

Abs(a) == IF a < 0 THEN -a ELSE a

\* Python's a // b for b > 0 (floor division)
FloorDiv(a, b) == a \div b

\* math.ceil(a / b) for b > 0
CeilDiv(a, b) == -((-a) \div b)

\* Python's int(a / b) on a true quotient: truncation toward zero
TruncDiv(a, b) ==
    IF (a >= 0) = (b > 0) THEN Abs(a) \div Abs(b) ELSE -(Abs(a) \div Abs(b))

RECURSIVE SumSeq(_)
SumSeq(s) == IF s = <<>> THEN 0 ELSE Head(s) + SumSeq(Tail(s))

\* len(set(shape))
DistinctDims(shape) == Cardinality({shape[i] : i \in DOMAIN shape})

\* the index tuples of an array with naxes axes of length len each (0-based)
Indices(naxes, len) == [1..naxes -> 0..(len - 1)]

(* ---------------------------------------------------------------------- *)
(* numpy.arange(start, stop, step), step > 0: ceil((stop-start)/step)      *)
(* samples start + i*step.                                                 *)
(* ---------------------------------------------------------------------- *)
arange(start, stop, step) ==
    LET n == IF stop > start THEN CeilDiv(stop - start, step) ELSE 0
    IN  [i \in 1..n |-> start + (i - 1) * step]

\* element i (0-based) of a sequence
At(s, i) == s[i + 1]

(* ---------------------------------------------------------------------- *)
(* fourier_array, line 22: d = arange(-nyquist, nyquist, 2*nyquist/size),  *)
(* in units of nyquist/size.                                               *)
(* ---------------------------------------------------------------------- *)
\* variant: an axis centred on index (size-1)/2: -(size-1), -(size-3), ..., size-1
FourierAxisCentred(size) == arange(-(size - 1), size, 2)

FourierAxis(size) == arange(-size, size, 2)

\* numpy.meshgrid(d, d) / meshgrid(d, d, d) with the default 'xy' indexing:
\* grid 1 varies along axis 2, grid 2 along axis 1, grid 3 along axis 3.
MeshAxis(g) == IF g = 1 THEN 2 ELSE IF g = 2 THEN 1 ELSE g

meshgrid(d, naxes) ==
    [g \in 1..naxes |-> [idx \in Indices(naxes, Len(d)) |-> At(d, idx[MeshAxis(g)])]]

(* ---------------------------------------------------------------------- *)
(* fourier_array(shape, nyquist), lines 16-33.  The result's k2[idx] is    *)
(* k[idx]^2 in units of (nyquist/size)^2; naxes and len give the shape of  *)
(* the array.  shape is always a tuple here (the assertion of line 16).    *)
(* ---------------------------------------------------------------------- *)
fourier_array(shape, nyquist) ==
    IF DistinctDims(shape) # 1
    THEN [status |-> "AssertionError", msg |-> "dimensions are not identical"]
    ELSE IF Len(shape) > 3
    THEN [status |-> "AssertionError", msg |-> "too many dimensions, 3 is max"]
    ELSE LET size  == shape[1]
             d     == FourierAxis(size)
             naxes == IF Len(shape) = 2 THEN 2 ELSE 3
             grids == meshgrid(d, naxes)
         IN  [status  |-> "ok",
              naxes   |-> naxes,
              len     |-> Len(d),
              size    |-> size,
              nyquist |-> nyquist,
              k2      |-> [idx \in Indices(naxes, Len(d)) |->
                             SumSeq([g \in 1..naxes |-> grids[g][idx] * grids[g][idx]])]]

(* ---------------------------------------------------------------------- *)
(* frange(start, stop, step), macros.py lines 24-25                        *)
(* ---------------------------------------------------------------------- *)
\* 2*((stop>start)^(step<0))-1 : the exclusive or of two booleans, as +1/-1
StepSign(start, stop, step) ==
    IF (stop > start) # (step < 0) THEN 1 ELSE -1

\* int((stop-start)/step), the argument of range()
FrangeCount(start, stop, step) == TruncDiv(stop - start, step)

frange(start, stop, step) ==
    LET s == step * StepSign(start, stop, step)
    IN  IF s = 0
        THEN [status |-> "ZeroDivisionError"]
        ELSE LET n == FrangeCount(start, stop, s)
             IN  [status |-> "ok",
                  step   |-> s,
                  list   |-> [i \in 1..n |-> start + (i - 1) * s]]

(* ---------------------------------------------------------------------- *)
(* Real values.  A non-negative real x is kept as the surd                 *)
(* sqrt(x.sq) / x.den.  A float result is NaN or a number                  *)
(*   const + amp * sinc^2(pi * (x - shift) * width)                        *)
(* ---------------------------------------------------------------------- *)
Surd(sq, den) == [sq |-> sq, den |-> den]

Rational(num, den) == Surd(num * num, den)

\* x = p for a surd x and an integer p
SurdEquals(x, p) == p >= 0 /\ x.sq = (p * x.den) * (p * x.den)

NaN == [kind |-> "nan"]

Num(c) == [kind |-> "num", const |-> c, amp |-> 0, at |-> <<>>]

(* ---------------------------------------------------------------------- *)
(* sinc_square, line 37:                                                   *)
(*   p1 * (sin(pi*(x-p2)*p3) / (pi*(x-p2)*p3))**2 + p4                     *)
(* The denominator pi*(x-p2)*p3 is 0 exactly when x = p2 or p3 = 0; the    *)
(* numerator is then sin(0) = 0 and the float quotient 0/0 is NaN, which   *)
(* the square, the product with p1 and the sum with p4 all keep.           *)
(* ---------------------------------------------------------------------- *)
sinc_square(x, p1, p2, p3, p4) ==
    LET denominatorIsZero == SurdEquals(x, p2) \/ p3 = 0
    IN  IF denominatorIsZero
        THEN NaN
        ELSE [kind |-> "num", const |-> p4, amp |-> p1, at |-> <<x, p2, p3>>]

\* sinc_square applied elementwise to a sequence of samples
SincSquareSeq(xs, p1, p2, p3, p4) ==
    [i \in DOMAIN xs |-> sinc_square(xs[i], p1, p2, p3, p4)]

(* ---------------------------------------------------------------------- *)
(* radial_average(image), lines 78-90.  An image is [shape, data] with     *)
(* data a function on the index tuples of the shape.                       *)
(* ---------------------------------------------------------------------- *)
\* numpy.linspace(start, stop, num) for the integer grids used here
linspace(start, stop, num) ==
    [i \in 1..num |->
        IF num = 1 THEN start ELSE start + ((i - 1) * (stop - start)) \div (num - 1)]

\* (2R)^2 at index idx: R = sqrt((x-center)^2 + (y-center)^2), center = (size-1)/2,
\* x, y = meshgrid(arange(size), arange(size)), so x[idx] = idx[2] and y[idx] = idx[1]
RadiusSq4(idx, size) ==
    (2 * idx[2] - (size - 1)) * (2 * idx[2] - (size - 1))
  + (2 * idx[1] - (size - 1)) * (2 * idx[1] - (size - 1))

\* (R >= r - .5) & (R < r + .5)
InRing(idx, size, r) ==
    /\ (2 * r - 1 <= 0 \/ RadiusSq4(idx, size) >= (2 * r - 1) * (2 * r - 1))
    /\ (2 * r + 1 > 0 /\ RadiusSq4(idx, size) < (2 * r + 1) * (2 * r + 1))

\* image[mask].mean(): the selected elements; the value is their sum divided by
\* their number, and NaN (0/0) when nothing is selected
RingMean(image, size, r) ==
    LET sel == {idx \in DOMAIN image.data : InRing(idx, size, r)}
    IN  [members |-> sel, count |-> Cardinality(sel), nan |-> sel = {}]

radial_average(image) ==
    IF Len(image.shape) # 2
    THEN [status |-> "AssertionError",
          msg |-> "radial average calculation only works for 2d image arrays"]
    ELSE IF DistinctDims(image.shape) # 1
    THEN [status |-> "AssertionError",
          msg |-> "differently size dimension, cannot perform radial averaging"]
    ELSE LET size == image.shape[1]
             r    == linspace(1, FloorDiv(size, 2), FloorDiv(size, 2))
         IN  IF Len(r) = 0
             \* numpy.vectorize without otypes refuses a size 0 input
             THEN [status |-> "ValueError",
                   msg |-> "cannot call vectorize on size 0 inputs unless otypes is set"]
             ELSE [status |-> "ok",
                   r      |-> r,
                   mean   |-> [i \in DOMAIN r |-> RingMean(image, size, r[i])],
                   image  |-> image]

(* ---------------------------------------------------------------------- *)
(* create_simple_complex_ctf, lines 266-275.  The phase is                 *)
(*   chi = pi/2 * (Cs * lmbd^3 * k^4 - 2 * Dz * lmbd * k^2)                *)
(* with k = fourier_array(image_shape, 1/(2*pixel_size)); ret.k2[idx] is   *)
(* k^2 in units of (1/(2*size*pixel_size))^2.  The decay envelope          *)
(* multiplies the modulus and leaves chi alone.                            *)
(* ---------------------------------------------------------------------- *)
create_simple_complex_ctf(image_shape) ==
    IF Len(image_shape) # 2
    THEN [status |-> "AssertionError", msg |-> "image shape should be a tuple of length 2"]
    ELSE IF DistinctDims(image_shape) # 1
    THEN [status |-> "AssertionError", msg |-> "dimensions need to be equal"]
    ELSE LET k == fourier_array(image_shape, 1)
         IN  [status |-> "ok", len |-> k.len, k2 |-> k.k2]

(* ---------------------------------------------------------------------- *)
(* create_complex_ctf, lines 326-348.                                      *)
(* An astigmatism angle is given by cos = c/h and sin = s/h with integers  *)
(* c, s, h, c^2 + s^2 = h^2 (0, 36.87.., 53.13.., 90 degrees, ...).        *)
(* ---------------------------------------------------------------------- *)
Angles ==
    { [c |-> 5, s |-> 0, h |-> 5],  [c |-> 4, s |-> 3, h |-> 5],
      [c |-> 3, s |-> 4, h |-> 5],  [c |-> 0, s |-> 5, h |-> 5],
      [c |-> -3, s |-> 4, h |-> 5], [c |-> -5, s |-> 0, h |-> 5] }

\* line 340: x = arange(-(image_size//2), abs(-image_size//2), 1);
\* -image_size//2 is (-image_size)//2
CtfAxis(image_size) ==
    arange(-FloorDiv(image_size, 2), Abs(FloorDiv(-image_size, 2)), 1)

\* line 342: xdot * h
Xdot(xx, yy, angle) == xx * angle.c - yy * angle.s

\* line 343: ydot * h
Ydot(xx, yy, angle) == xx * angle.s - yy * angle.c

\* ret.qsym2[idx] is qsym^2 in units of (q_true/h)^2, ret.q2[idx] is q^2 in
\* units of (q_true/h)^2/defocus, q_true = 1/(image_size*pixel_size);
\* ret.qnan: q is NaN (square root of a negative ratio).
create_complex_ctf(image_shape, defocus, astigmatism, angle) ==
    IF Len(image_shape) # 2
    THEN [status |-> "AssertionError", msg |-> "image shape should be a tuple of length 2"]
    ELSE IF DistinctDims(image_shape) # 1
    THEN [status |-> "AssertionError", msg |-> "dimensions need to be equal"]
    ELSE LET image_size == image_shape[1]
             dfsh == defocus + astigmatism
             dfln == defocus - astigmatism
         IN  IF defocus = 0 \/ dfln = 0
             THEN [status |-> "ZeroDivisionError"]
             ELSE LET x    == CtfAxis(image_size)
                      idxs == Indices(2, Len(x))
                      xx   == [idx \in idxs |-> At(x, idx[2])]
                      yy   == [idx \in idxs |-> At(x, idx[1])]
                      xdot == [idx \in idxs |-> Xdot(xx[idx], yy[idx], angle)]
                      ydot == [idx \in idxs |-> Ydot(xx[idx], yy[idx], angle)]
                  IN  [status |-> "ok",
                       len    |-> Len(x),
                       xx     |-> xx,
                       yy     |-> yy,
                       xdot   |-> xdot,
                       ydot   |-> ydot,
                       qnan   |-> (dfsh * defocus < 0) \/ (defocus * dfln < 0),
                       q2     |-> [idx \in idxs |->
                                     xdot[idx] * xdot[idx] * dfln + ydot[idx] * ydot[idx] * dfsh],
                       qsym2  |-> [idx \in idxs |->
                                     xdot[idx] * xdot[idx] + ydot[idx] * ydot[idx]]]

(* ---------------------------------------------------------------------- *)
(* create_detector_response, lines 143-170                                 *)
(* ---------------------------------------------------------------------- *)
\* line 143: name = f'{detector}_{response_function}_{int(voltage*1E-3)}kV'
CurveName(detector, response_function, voltage) ==
    <<detector, response_function, voltage \div 1000>>

\* the detector curves present in the folder: (frequency, response) columns,
\* frequency as a fraction of Nyquist
CurveA == [q |-> <<Rational(0, 1), Rational(1, 2), Rational(1, 1)>>, y |-> <<10, 6, 2>>]

CurveB == [q |-> <<Rational(1, 4), Rational(1, 2), Rational(3, 4)>>, y |-> <<9, 7, 4>>]

Storage ==
    (<<"K2SUMMIT", "MTF", 300>> :> CurveA) @@ (<<"K2SUMMIT", "DQE", 300>> :> CurveB)

\* parameter tuples the least-squares solver may converge to
FitResults == { <<1, 0, 1, 0>>, <<1, 1, 1, 1>>, <<2, -1, 1, 0>> }

\* Python's a[lo:hi] on an axis of length len: the kept indices
SliceIndices(len, lo, hi) ==
    LET norm(v) == IF v < 0 THEN (IF len + v < 0 THEN 0 ELSE len + v)
                            ELSE (IF v > len THEN len ELSE v)
    IN  {i \in 0..(len - 1) : norm(lo) <= i /\ i < norm(hi)}

\* a[cut:-cut, cut:-cut] for a square 2D array a = [len, data]
Crop(a, cut) ==
    LET kept == SliceIndices(a.len, cut, -cut)
        n    == Cardinality(kept)
    IN  [len  |-> n,
         data |-> [idx \in Indices(2, n) |-> a.data[[ax \in 1..2 |-> idx[ax] + cut]]]]

(* ---------------------------------------------------------------------- *)
(* Inputs                                                                  *)
(* ---------------------------------------------------------------------- *)
Shapes == UNION {[1..n -> 1..MaxSize] : n \in 0..MaxDims}

\* the index tuples of an array of the given shape
ShapeIndices(shape) ==
    {idx \in [DOMAIN shape -> 0..(MaxSize - 1)] : \A a \in DOMAIN shape : idx[a] < shape[a]}

\* test images: constant, or every element different
ImageValue(pattern, shape, idx) ==
    IF pattern = "ones" THEN 1
    ELSE SumSeq([a \in DOMAIN shape |-> idx[a] * (MaxSize + 1) * (IF a = 1 THEN 1 ELSE MaxSize + 1)])

Image(pattern, shape) ==
    [shape |-> shape, data |-> [idx \in ShapeIndices(shape) |-> ImageValue(pattern, shape, idx)]]

Samples == { Surd(sq, den) : sq \in {0, 1, 2, 4}, den \in {1, 2} }

NoLocals ==
    [found |-> "unknown", converged |-> "unknown", qdata |-> <<>>, ydata |-> <<>>,
     f0 |-> <<>>, params |-> <<>>, r |-> Nothing, detector_response |-> Nothing,
     cropped |-> FALSE, displayed |-> FALSE]

Init ==
    /\ op = "none"
    /\ args = Nothing
    /\ ret = Nothing
    /\ pc = "idle"
    /\ trace = <<>>
    /\ loc = NoLocals

\* A pure function is called and returns in one step.
CallFourierArray ==
    /\ op = "none"
    /\ \E shape \in Shapes, nyquist \in 1..2 :
          /\ args' = [shape |-> shape, nyquist |-> nyquist]
          /\ ret' = fourier_array(shape, nyquist)
    /\ op' = "fourier_array"
    /\ UNCHANGED <<pc, trace, loc>>

CallFrange ==
    /\ op = "none"
    /\ \E start \in (-MaxF)..MaxF, stop \in (-MaxF)..MaxF, step \in (-MaxStep)..MaxStep :
          /\ args' = [start |-> start, stop |-> stop, step |-> step]
          /\ ret' = frange(start, stop, step)
    /\ op' = "frange"
    /\ UNCHANGED <<pc, trace, loc>>

CallSincSquare ==
    /\ op = "none"
    /\ \E x \in Samples, p1 \in (-MaxP)..MaxP, p2 \in (-MaxP)..MaxP,
          p3 \in (-MaxP)..MaxP, p4 \in (-MaxP)..MaxP :
          /\ args' = [x |-> x, p1 |-> p1, p2 |-> p2, p3 |-> p3, p4 |-> p4]
          /\ ret' = [status |-> "ok", value |-> sinc_square(x, p1, p2, p3, p4)]
    /\ op' = "sinc_square"
    /\ UNCHANGED <<pc, trace, loc>>

CallRadialAverage ==
    /\ op = "none"
    /\ \E shape \in {s \in Shapes : Len(s) \in 1..3}, pattern \in {"ones", "index"} :
          /\ args' = [image |-> Image(pattern, shape)]
          /\ ret' = radial_average(Image(pattern, shape))
    /\ op' = "radial_average"
    /\ UNCHANGED <<pc, trace, loc>>

CallCreateSimpleComplexCtf ==
    /\ op = "none"
    /\ \E shape \in {s \in Shapes : Len(s) \in 1..3} :
          /\ args' = [image_shape |-> shape]
          /\ ret' = create_simple_complex_ctf(shape)
    /\ op' = "create_simple_complex_ctf"
    /\ UNCHANGED <<pc, trace, loc>>

CallCreateComplexCtf ==
    /\ op = "none"
    /\ \E shape \in {s \in Shapes : Len(s) \in 1..3}, defocus \in {-2, 1, 2},
          astigmatism \in {0, 1, 3}, angle \in Angles :
          /\ args' = [image_shape |-> shape, defocus |-> defocus,
                      astigmatism |-> astigmatism, astigmatism_angle |-> angle]
          /\ ret' = create_complex_ctf(shape, defocus, astigmatism, angle)
    /\ op' = "create_complex_ctf"
    /\ UNCHANGED <<pc, trace, loc>>

(* ---------------------------------------------------------------------- *)
(* create_detector_response, one action per statement group                *)
(* ---------------------------------------------------------------------- *)
create_detector_response ==
    /\ op = "none"
    /\ \E detector \in {"K2SUMMIT", "FALCONII"}, response_function \in {"MTF", "DQE"},
          voltage \in {200000, 300000}, image_size \in 1..MaxSize,
          binning \in 1..MaxBinning, display \in BOOLEAN :
          args' = [detector |-> detector, response_function |-> response_function,
                   image_size |-> image_size, voltage |-> voltage, binning |-> binning,
                   display |-> display]
    /\ op' = "create_detector_response"
    /\ pc' = "load"
    /\ UNCHANGED <<ret, trace, loc>>

Raise(status) ==
    /\ ret' = [status |-> status]
    /\ pc' = "raised"

\* lines 143-150: read_detector_csv(filename); genfromtxt raises when the
\* file does not exist
read_detector_csv ==
    /\ pc = "load"
    /\ trace' = Append(trace, "load")
    /\ LET name == CurveName(args.detector, args.response_function, args.voltage)
       IN  IF name \in DOMAIN Storage
           THEN /\ loc' = [loc EXCEPT !.found = "yes", !.qdata = Storage[name].q,
                                      !.ydata = Storage[name].y]
                /\ pc' = "fit"
                /\ UNCHANGED ret
           ELSE /\ loc' = [loc EXCEPT !.found = "no"]
                /\ Raise("FileNotFoundError")
    /\ UNCHANGED <<op, args>>

\* variant: a fit that hides a failure to converge and goes on with the initial
\* guess
fit_sinc_square_swallow ==
    /\ pc = "fit"
    /\ trace' = Append(trace, "fit")
    /\ \E converged \in BOOLEAN, popt \in FitResults :
          /\ loc' = [loc EXCEPT !.converged = IF converged THEN "yes" ELSE "no",
                                !.f0 = SincSquareSeq(loc.qdata, 1, 1, 1, 1),
                                !.params = IF converged THEN popt ELSE <<1, 1, 1, 1>>]
          /\ pc' = "grid"
          /\ UNCHANGED ret
    /\ UNCHANGED <<op, args>>

\* line 151, fit_sinc_square lines 43-70: curve_fit evaluates sinc_square at the
\* initial guess p0 = (1, 1, 1, 1), then either converges to some parameters or
\* raises RuntimeError
fit_sinc_square ==
    /\ pc = "fit"
    /\ trace' = Append(trace, "fit")
    /\ \E converged \in BOOLEAN, popt \in FitResults :
          IF converged
          THEN /\ loc' = [loc EXCEPT !.converged = "yes",
                                     !.f0 = SincSquareSeq(loc.qdata, 1, 1, 1, 1),
                                     !.params = popt]
               /\ pc' = "grid"
               /\ UNCHANGED ret
          ELSE /\ loc' = [loc EXCEPT !.converged = "no",
                                     !.f0 = SincSquareSeq(loc.qdata, 1, 1, 1, 1)]
               /\ Raise("RuntimeError")
    /\ UNCHANGED <<op, args>>

\* lines 153-158
BuildGrid ==
    /\ pc = "grid"
    /\ trace' = Append(trace, "grid")
    /\ LET sampling_image_size == args.image_size * args.binning
       IN  loc' = [loc EXCEPT !.r = fourier_array(<<sampling_image_size, sampling_image_size>>, 1)]
    /\ pc' = "evaluate"
    /\ UNCHANGED <<op, args, ret>>

\* line 160: r[idx] = sqrt(k2[idx]) / size, nyquist being 1
Evaluate ==
    /\ pc = "evaluate"
    /\ trace' = Append(trace, "evaluate")
    /\ LET r == loc.r
           p == loc.params
       IN  loc' = [loc EXCEPT !.detector_response =
                      [len  |-> r.len,
                       data |-> [idx \in DOMAIN r.k2 |->
                                   sinc_square(Surd(r.k2[idx], r.size), p[1], p[2], p[3], p[4])]]]
    /\ pc' = "crop"
    /\ UNCHANGED <<op, args, ret>>

\* lines 162-165
CropResponse ==
    /\ pc = "crop"
    /\ IF args.binning > 1
       THEN LET sampling_image_size == args.image_size * args.binning
                cut == FloorDiv(sampling_image_size, 2) - FloorDiv(args.image_size, 2)
            IN  /\ loc' = [loc EXCEPT !.detector_response = Crop(loc.detector_response, cut),
                                      !.cropped = TRUE]
                /\ trace' = Append(trace, "crop")
       ELSE UNCHANGED <<loc, trace>>
    /\ pc' = "display"
    /\ UNCHANGED <<op, args, ret>>

\* lines 167-168, display_microscope_function lines 94-110: the plotting
\* backend may be missing; radial_average may refuse the array
display_microscope_function ==
    /\ pc = "display"
    /\ IF args.display
       THEN /\ trace' = Append(trace, "display")
            /\ \E backend \in BOOLEAN :
                 LET a == loc.detector_response
                     profile == radial_average([shape |-> <<a.len, a.len>>, data |-> a.data])
                 IN  IF ~backend
                     THEN Raise("ImportError") /\ UNCHANGED loc
                     ELSE IF profile.status # "ok"
                     THEN Raise(profile.status) /\ UNCHANGED loc
                     ELSE /\ loc' = [loc EXCEPT !.displayed = TRUE]
                          /\ pc' = "return"
                          /\ UNCHANGED ret
       ELSE /\ pc' = "return"
            /\ UNCHANGED <<trace, loc, ret>>
    /\ UNCHANGED <<op, args>>

\* line 170
ReturnResponse ==
    /\ pc = "return"
    /\ trace' = Append(trace, "return")
    /\ ret' = [status |-> "ok", response |-> loc.detector_response]
    /\ pc' = "done"
    /\ UNCHANGED <<op, args, loc>>

\* the caller takes the outcome; nothing of the call is kept
Return ==
    /\ op # "none"
    /\ pc \in {"idle", "done", "raised"}
    /\ op' = "none"
    /\ args' = Nothing
    /\ ret' = Nothing
    /\ pc' = "idle"
    /\ trace' = <<>>
    /\ loc' = NoLocals

Next ==
    \/ CallFourierArray
    \/ CallFrange
    \/ CallSincSquare
    \/ CallRadialAverage
    \/ CallCreateSimpleComplexCtf
    \/ CallCreateComplexCtf
    \/ create_detector_response
    \/ read_detector_csv
    \/ fit_sinc_square
    \/ BuildGrid
    \/ Evaluate
    \/ CropResponse
    \/ display_microscope_function
    \/ ReturnResponse
    \/ Return

Spec == Init /\ [][Next]_vars

(* ====================================================================== *)
(* Properties                                                              *)
(* ====================================================================== *)
\* idx with the index along axis a replaced by i
Along(idx, a, i) == [idx EXCEPT ![a] = i]

Sq(v) == v * v

IsFourierArrayResult ==
    op = "fourier_array" /\ ret.status = "ok" /\ Len(args.shape) \in {2, 3}

\* C1: create_detector_response returns a map of shape (image_size, image_size)
\* for every image_size >= 1 and binning >= 1.
C1_ResponseShape ==
    (op = "create_detector_response" /\ pc = "done") =>
        /\ ret.response.len = args.image_size
        /\ DOMAIN ret.response.data = Indices(2, args.image_size)

\* C2: wherever sinc_square is evaluated at a sample x = p2 (a direct call, the
\* fitter's evaluation at the initial guess (1,1,1,1), the evaluation over the
\* detector frequency map) the value is p1 + p4 and not NaN.
C2_SingularityGuarded ==
    /\ (op = "sinc_square" /\ SurdEquals(args.x, args.p2)) =>
           ret.value = Num(args.p1 + args.p4)
    /\ (op = "create_detector_response") =>
           \A i \in DOMAIN loc.f0 :
               SurdEquals(loc.qdata[i], 1) => loc.f0[i] = Num(1 + 1)
    /\ (op = "create_detector_response" /\ loc.detector_response # Nothing /\ ~loc.cropped) =>
           \A idx \in DOMAIN loc.r.k2 :
               SurdEquals(Surd(loc.r.k2[idx], loc.r.size), loc.params[2]) =>
                   loc.detector_response.data[idx] = Num(loc.params[1] + loc.params[4])

\* C3 as stated: on every axis the value at index i equals the value at the
\* reflected index n-1-i, for all i in 0..n-1.
C3_ReflectSymmetric ==
    IsFourierArrayResult =>
        \A idx \in DOMAIN ret.k2 : \A a \in DOMAIN idx :
            ret.k2[idx] = ret.k2[Along(idx, a, ret.len - 1 - idx[a])]

\* C3 as amended: on every axis the value at index i equals the value at index
\* n-i, for all i in 1..n-1 (reflection about index n/2, where the axis sample
\* is the zero frequency; index 0, the -nyquist sample, has no partner).
C3_SymmetricAboutZeroFrequency ==
    IsFourierArrayResult =>
        \A idx \in DOMAIN ret.k2 : \A a \in DOMAIN idx :
            idx[a] >= 1 => ret.k2[idx] = ret.k2[Along(idx, a, ret.len - idx[a])]

\* a 3D grid of side 4: indices 1 and 3 are distinct partners on every axis
C3_Witness ==
    /\ IsFourierArrayResult
    /\ Len(args.shape) = 3
    /\ ret.len = 4
    /\ ret.k2[<<1, 2, 3>>] = ret.k2[<<3, 2, 1>>]

\* C4: the magnitude at the grid center is 0 or, where no sample is 0, the
\* center holds the single smallest value of the grid.
C4_CenterIsZeroOrUniqueMinimum ==
    IsFourierArrayResult =>
        LET center == [a \in 1..ret.naxes |-> FloorDiv(ret.len, 2)]
        IN  \/ ret.k2[center] = 0
            \/ /\ \A idx \in DOMAIN ret.k2 : ret.k2[idx] # 0
               /\ \A idx \in DOMAIN ret.k2 : idx # center => ret.k2[idx] > ret.k2[center]

\* C5: fourier_array fails for a shape of more than 3 or fewer than 1 dimensions
\* or of unequal dimensions, and for every shape it accepts the result has
\* exactly that shape.
C5_RejectsOrKeepsShape ==
    (op = "fourier_array") =>
        /\ (Len(args.shape) > 3 \/ Len(args.shape) < 1 \/ DistinctDims(args.shape) # 1)
               => ret.status = "AssertionError"
        /\ ret.status = "ok" =>
               /\ ret.naxes = Len(args.shape)
               /\ \A a \in DOMAIN args.shape : ret.len = args.shape[a]
               /\ DOMAIN ret.k2 = ShapeIndices(args.shape)

\* C6: with astigmatism = 0 (and the default angle 0) the extended CTF uses, at
\* every index, q^2 = qsym^2 = k^2 of the simple CTF on the same shape and
\* pixel size.  k^2 is in units of (q_true/2)^2.
C6_ExtendedReducesToSimple ==
    (/\ op = "create_complex_ctf"
     /\ ret.status = "ok"
     /\ args.astigmatism = 0
     /\ args.astigmatism_angle.s = 0 /\ args.astigmatism_angle.c > 0) =>
        LET simple == create_simple_complex_ctf(args.image_shape)
            h2     == Sq(args.astigmatism_angle.h)
        IN  /\ simple.status = "ok"
            /\ ~ret.qnan
            /\ DOMAIN ret.q2 = DOMAIN simple.k2
            /\ \A idx \in DOMAIN ret.q2 :
                  /\ 4 * ret.qsym2[idx] = h2 * simple.k2[idx]
                  /\ 4 * ret.q2[idx] = h2 * args.defocus * simple.k2[idx]

\* C7: (xx, yy) -> (xdot, ydot) keeps the norm: xdot^2 + ydot^2 = xx^2 + yy^2
\* at every grid point, for every astigmatism angle.
C7_RotationPreservesNorm ==
    (op = "create_complex_ctf" /\ ret.status = "ok") =>
        \A idx \in DOMAIN ret.xdot :
            Sq(ret.xdot[idx]) + Sq(ret.ydot[idx])
                = Sq(args.astigmatism_angle.h) * (Sq(ret.xx[idx]) + Sq(ret.yy[idx]))

\* C8: for a 2D square array of side n >= 1 radial_average returns the radii
\* 1..n//2 and for each r a well defined mean over exactly the elements at
\* distance in [r-0.5, r+0.5) from ((n-1)/2, (n-1)/2); it fails for an array
\* that is not 2D or not square; the input array is unchanged.
C8_RadialProfile ==
    (op = "radial_average") =>
        LET shape == args.image.shape
            n     == shape[1]
        IN  IF Len(shape) # 2 \/ DistinctDims(shape) # 1
            THEN ret.status = "AssertionError"
            ELSE /\ ret.status = "ok"
                 /\ ret.r = [i \in 1..FloorDiv(n, 2) |-> i]
                 /\ DOMAIN ret.mean = DOMAIN ret.r
                 /\ \A i \in DOMAIN ret.r :
                       /\ ~ret.mean[i].nan
                       /\ ret.mean[i].count > 0
                       /\ ret.mean[i].members =
                            {idx \in ShapeIndices(shape) :
                                /\ Sq(2 * i - 1) <= Sq(2 * idx[1] - (n - 1)) + Sq(2 * idx[2] - (n - 1))
                                /\ Sq(2 * idx[1] - (n - 1)) + Sq(2 * idx[2] - (n - 1)) < Sq(2 * i + 1)}
                 /\ ret.image = args.image

\* the statement that must precede a statement of create_detector_response
Before(step) ==
    CASE step = "fit"      -> "load"
      [] step = "grid"     -> "fit"
      [] step = "evaluate" -> "grid"
      [] step = "crop"     -> "evaluate"
      [] step = "display"  -> IF args.binning > 1 THEN "crop" ELSE "evaluate"
      [] step = "return"   -> IF args.display THEN "display"
                              ELSE IF args.binning > 1 THEN "crop" ELSE "evaluate"
      [] OTHER             -> "none"

NothingComputed ==
    /\ loc.params = <<>>
    /\ loc.r = Nothing
    /\ loc.detector_response = Nothing
    /\ ~loc.displayed

\* C9: create_detector_response runs load, fit, grid, evaluate, crop, display,
\* return in this order, each at most once; a missing curve file stops the
\* call at the load with the error and nothing computed; a fit that does not
\* converge stops it at the fit with the error and no map; an error never
\* comes with a result.
C9_AbortsInOrder ==
    (op = "create_detector_response") =>
        /\ \A i \in DOMAIN trace :
              IF i = 1 THEN trace[i] = "load" ELSE trace[i - 1] = Before(trace[i])
        /\ loc.found = "no" =>
              /\ pc = "raised" /\ ret = [status |-> "FileNotFoundError"]
              /\ trace = <<"load">>
              /\ loc.converged = "unknown" /\ loc.f0 = <<>>
              /\ NothingComputed
        /\ loc.converged = "no" =>
              /\ pc = "raised" /\ ret = [status |-> "RuntimeError"]
              /\ trace = <<"load", "fit">>
              /\ NothingComputed
        /\ pc = "raised" => (ret.status \notin {"ok", "none"} /\ DOMAIN ret = {"status"})
        /\ pc \notin {"raised", "done"} => ret = Nothing
        /\ pc = "done" =>
              /\ ret.status = "ok"
              /\ loc.found = "yes" /\ loc.converged = "yes"
              /\ loc.params \in FitResults
              /\ ret.response = loc.detector_response
              /\ trace[Len(trace)] = "return"
              /\ loc.cropped = (args.binning > 1)
              /\ loc.displayed = args.display

\* the fit of an existing curve did not converge and the call has ended
C9_Witness ==
    /\ op = "create_detector_response"
    /\ loc.found = "yes"
    /\ loc.converged = "no"
    /\ pc = "raised"
    /\ ret.status = "RuntimeError"

\* C10: for step # 0, frange returns in order exactly the values start + i*s
\* (i = 0, 1, ...) lying between start (inclusive) and stop (exclusive), s of
\* magnitude |step| pointing from start to stop.
C10_HalfOpenRange ==
    (op = "frange" /\ args.step # 0) =>
        LET s == IF args.stop >= args.start THEN Abs(args.step) ELSE -Abs(args.step)
            n == CeilDiv(Abs(args.stop - args.start), Abs(args.step))
        IN  /\ ret.status = "ok"
            /\ ret.list = [i \in 1..n |-> args.start + (i - 1) * s]
====
